---- MODULE Spec2Model ----
(***************************************************************************)
(* The event emitter of goemitter.go: a registry of listeners keyed by     *)
(* event pattern, guarded by one mutex, with synchronous and asynchronous  *)
(* dispatch.  Every exported method is modelled as the sequence of steps   *)
(* its code takes between two operations on the mutex, so that callers can *)
(* interleave exactly where the code lets them.                            *)
(***************************************************************************)
EXTENDS Integers, Sequences, FiniteSets, Bags, TLC

VARIABLES
    listeners,  \* Emitter.listeners: map from key to its slice of Listener
    mutex,      \* Emitter.mutex: Unlocked, or the caller that locked it
    stack,      \* per caller, the frames of the calls it is inside of
    tasks,      \* goroutines started by EmitAsync that have not run yet
    invoked,    \* per callback, how many times it has been invoked
    hist,       \* history: the bag of registrations and removals carried out
    calls       \* the number of API calls made so far

vars == <<listeners, mutex, stack, tasks, invoked, hist, calls>>

----------------------------------------------------------------------------
(* Bounds of the model. *)

MaxCalls == 4       \* API calls made in one behaviour of Spec
MaxRegCalls == 3    \* API calls made in one behaviour of SpecReg
MaxConcCalls == 3   \* API calls made in one behaviour of SpecConc
MaxNestCalls == 3   \* API calls made in one behaviour of SpecNest
MaxMatchCalls == 4  \* API calls made in one behaviour of SpecMatch
MaxPatternLen == 3  \* length of the patterns the matcher is compared on
MaxPanicCalls == 4  \* API calls made in one behaviour of SpecPanic

----------------------------------------------------------------------------
(* Strings are sequences of characters, as the matcher reads them. *)

Star == "*"
MatchAll == <<"*", "*">>
NewListenerEv == <<"n", "e", "w", "L", "i", "s", "t", "e", "n", "e", "r">>
RemoveListenerEv ==
    <<"r", "e", "m", "o", "v", "e", "L", "i", "s", "t", "e", "n", "e", "r">>
EvA == <<"a">>
EvB == <<"b">>
EvAB == <<"a", "b">>
EvBA == <<"b", "a">>
EmptyEvent == <<>>
PatAStar == <<"a", "*">>
PatStarB == <<"*", "b">>
NilEvent == <<"<nil>">>

(* Callbacks are closures: a code pointer and the environment captured.    *)
(* fn1 and fn2 are the two function literals of the tests; a literal       *)
(* evaluated twice gives two closures with the same code.                  *)
Fn1 == [code |-> "fn1", env |-> "x"]
Fn1b == [code |-> "fn1", env |-> "y"]
Fn2 == [code |-> "fn2", env |-> "x"]
NoCallback == [code |-> "nil", env |-> "nil"]
AllCallbacks == {Fn1, Fn1b, Fn2}

Callers == {"c1", "c2"}
Unlocked == "unlocked"

(* reflect.ValueOf(callback).Pointer(): the code pointer of a func value. *)
Pointer(cb) == cb.code

Listener(cb, once) == [callback |-> cb, once |-> once]

----------------------------------------------------------------------------
(* The wildcard matcher. *)

(* Mutant of eventMatchPattern: a '*' stands for one or more characters. *)
RECURSIVE eventMatchPatternPlus(_, _)
eventMatchPatternPlus(eventName, pattern) ==
    IF Len(pattern) = 0
    THEN Len(eventName) = 0
    ELSE IF Head(pattern) = Star
         THEN /\ Len(eventName) > 0
              /\ \/ eventMatchPatternPlus(Tail(eventName), Tail(pattern))
                 \/ eventMatchPatternPlus(Tail(eventName), pattern)
         ELSE IF Len(eventName) = 0 \/ Head(eventName) # Head(pattern)
              THEN FALSE
              ELSE eventMatchPatternPlus(Tail(eventName), Tail(pattern))

RECURSIVE eventMatchPattern(_, _)
eventMatchPattern(eventName, pattern) ==
    IF Len(pattern) = 0
    THEN Len(eventName) = 0
    ELSE IF Head(pattern) = Star
         THEN \/ eventMatchPattern(eventName, Tail(pattern))
              \/ /\ Len(eventName) > 0
                 /\ eventMatchPattern(Tail(eventName), pattern)
         ELSE IF Len(eventName) = 0 \/ Head(eventName) # Head(pattern)
              THEN FALSE
              ELSE eventMatchPattern(Tail(eventName), Tail(pattern))

Contains(s, c) == \E i \in 1..Len(s) : s[i] = c

shouldAdd(eventPattern, event) ==
    \/ eventPattern = MatchAll
    \/ eventPattern = event
    \/ /\ Contains(eventPattern, Star)
       /\ eventMatchPattern(event, eventPattern)

(* The keys of the registry whose listeners Listeners(event) collects. *)
MatchingKeys(reg, event) == {k \in DOMAIN reg : shouldAdd(k, event)}

(* The orders in which a range over a Go map can visit the keys S. *)
Orders(S) ==
    {o \in [1..Cardinality(S) -> S] : \A i, j \in DOMAIN o : o[i] = o[j] => i = j}

(* Mutant of Collect: each key's listeners are prepended one by one, which *)
(* reverses them.                                                          *)
Reverse(s) == [j \in 1..Len(s) |-> s[Len(s) + 1 - j]]
RECURSIVE CollectReversed(_, _, _)
CollectReversed(reg, order, n) ==
    IF n = 0 THEN <<>>
    ELSE CollectReversed(reg, order, n - 1) \o Reverse(reg[order[n]])

RECURSIVE Collect(_, _, _)
Collect(reg, order, n) ==
    IF n = 0 THEN <<>> ELSE Collect(reg, order, n - 1) \o reg[order[n]]

(* The slices Listeners(event) can return on registry reg. *)
Listeners(reg, event) ==
    {Collect(reg, o, Len(o)) : o \in Orders(MatchingKeys(reg, event))}

RECURSIVE SumLen(_, _)
SumLen(reg, S) ==
    IF S = {} THEN 0
    ELSE LET k == CHOOSE x \in S : TRUE
         IN Len(reg[k]) + SumLen(reg, S \ {k})

(* ListenersCount(event): the length of the slice Listeners returns. *)
ListenersCount(reg, event) == SumLen(reg, MatchingKeys(reg, event))

----------------------------------------------------------------------------
(* Frames and stacks. *)

Frame(op, event, cb, flag) ==
    [op |-> op, pc |-> "lock", event |-> event, callback |-> cb, flag |-> flag,
     snap |-> <<>>, i |-> 1, done |-> <<>>]

Depth(t) == Len(stack[t])
Top(t) == stack[t][Len(stack[t])]
AtTop(t, ops, pc) == Depth(t) > 0 /\ Top(t).op \in ops /\ Top(t).pc = pc

SetTop(t, f) == [stack EXCEPT ![t] = [@ EXCEPT ![Len(@)] = f]]
Push(t, f) == [stack EXCEPT ![t] = Append(@, f)]
SetTopAndPush(t, f, g) ==
    [stack EXCEPT ![t] = Append([@ EXCEPT ![Len(@)] = f], g)]

Call(op, event, cb) == [op |-> op, event |-> event, callback |-> cb]

(* The caller is inside no call; the caller is inside a callback's body. *)
Idle(t) == stack[t] = <<>>
InCallback(t) == AtTop(t, {"callback"}, "body")

----------------------------------------------------------------------------
(* Construct(): an empty map and an unlocked mutex. *)

Construct ==
    /\ listeners = <<>>
    /\ mutex = Unlocked
    /\ stack = [t \in Callers |-> <<>>]
    /\ tasks = EmptyBag
    /\ invoked = [cb \in AllCallbacks |-> 0]
    /\ hist = EmptyBag
    /\ calls = 0

Init == Construct

----------------------------------------------------------------------------
(* Calls of the API, by a caller that is inside no call or by the body of  *)
(* a callback that is running.                                             *)

StartCall(t, op, event, cb, flag) ==
    /\ Idle(t) \/ InCallback(t)
    /\ stack' = Push(t, Frame(op, event, cb, flag))
    /\ calls' = calls + 1
    /\ UNCHANGED <<listeners, mutex, tasks, invoked, hist>>

CallOn(t, event, cb) == StartCall(t, "On", event, cb, FALSE)

CallOnce(t, event, cb) == StartCall(t, "Once", event, cb, TRUE)

(* RemoveListener(event, callback) is removeListenerInternal with suppress *)
(* false.                                                                  *)
CallRemoveListener(t, event, cb) ==
    StartCall(t, "removeListenerInternal", event, cb, FALSE)

CallRemoveAllListeners(t, event) ==
    StartCall(t, "RemoveAllListeners", event, NoCallback, FALSE)

CallListeners(t, event) == StartCall(t, "Listeners", event, NoCallback, FALSE)

CallEmitSync(t, event) == StartCall(t, "EmitSync", event, NoCallback, FALSE)

CallEmitAsync(t, event) == StartCall(t, "EmitAsync", event, NoCallback, FALSE)

----------------------------------------------------------------------------
(* self.mutex.Lock(): blocks until the mutex is unlocked. *)

Lock(t) ==
    /\ Depth(t) > 0
    /\ Top(t).pc = "lock"
    /\ mutex = Unlocked
    /\ mutex' = t
    /\ stack' = SetTop(t, [Top(t) EXCEPT !.pc = "locked"])
    /\ UNCHANGED <<listeners, tasks, invoked, hist, calls>>

(* Mutant of OnAppend: the unlock is deferred to the return of On. *)
OnAppendDefersUnlock(t) ==
    /\ AtTop(t, {"On", "Once"}, "locked")
    /\ LET f == Top(t)
           old == IF f.event \in DOMAIN listeners THEN listeners[f.event] ELSE <<>>
           new == Append(old, Listener(f.callback, f.op = "Once"))
       IN /\ listeners' = [k \in DOMAIN listeners \cup {f.event} |->
                              IF k = f.event THEN new ELSE listeners[k]]
          /\ hist' = hist (+) SetToBag({Call(f.op, f.event, f.callback)})
    /\ stack' = SetTop(t, [Top(t) EXCEPT !.pc = "emit"])
    /\ UNCHANGED <<mutex, tasks, invoked, calls>>

(* Mutant of OnAppend: the key's slice is made anew at every call. *)
OnAppendOverwrites(t) ==
    /\ AtTop(t, {"On", "Once"}, "locked")
    /\ LET f == Top(t)
       IN /\ listeners' = [k \in DOMAIN listeners \cup {f.event} |->
                              IF k = f.event
                              THEN <<Listener(f.callback, f.op = "Once")>>
                              ELSE listeners[k]]
          /\ hist' = hist (+) SetToBag({Call(f.op, f.event, f.callback)})
    /\ mutex' = Unlocked
    /\ stack' = SetTop(t, [Top(t) EXCEPT !.pc = "emit"])
    /\ UNCHANGED <<tasks, invoked, calls>>

(* On and Once, under the mutex: append the listener, then unlock. *)
OnAppend(t) ==
    /\ AtTop(t, {"On", "Once"}, "locked")
    /\ LET f == Top(t)
           old == IF f.event \in DOMAIN listeners THEN listeners[f.event] ELSE <<>>
           new == Append(old, Listener(f.callback, f.op = "Once"))
       IN /\ listeners' = [k \in DOMAIN listeners \cup {f.event} |->
                              IF k = f.event THEN new ELSE listeners[k]]
          /\ hist' = hist (+) SetToBag({Call(f.op, f.event, f.callback)})
    /\ mutex' = Unlocked
    /\ stack' = SetTop(t, [Top(t) EXCEPT !.pc = "emit"])
    /\ UNCHANGED <<tasks, invoked, calls>>

(* Mutant of OnEmit: On returns without the meta-emission. *)
OnSkipsEmit(t) ==
    /\ AtTop(t, {"On", "Once"}, "emit")
    /\ stack' = SetTop(t, [Top(t) EXCEPT !.pc = "ret"])
    /\ UNCHANGED <<listeners, mutex, tasks, invoked, hist, calls>>

(* Mutant of OnEmit: a registration on "newListener" itself makes no       *)
(* emission.                                                               *)
OnEmitNotForMetaKey(t) ==
    /\ AtTop(t, {"On", "Once"}, "emit")
    /\ stack' = IF Top(t).event = NewListenerEv
                THEN SetTop(t, [Top(t) EXCEPT !.pc = "ret"])
                ELSE SetTopAndPush(t, [Top(t) EXCEPT !.pc = "ret"],
                                   Frame("EmitSync", NewListenerEv, NoCallback, FALSE))
    /\ UNCHANGED <<listeners, mutex, tasks, invoked, hist, calls>>

(* On and Once, after the unlock: self.EmitSync("newListener", ...). *)
OnEmit(t) ==
    /\ AtTop(t, {"On", "Once"}, "emit")
    /\ stack' = SetTopAndPush(t, [Top(t) EXCEPT !.pc = "ret"],
                              Frame("EmitSync", NewListenerEv, NoCallback, FALSE))
    /\ UNCHANGED <<listeners, mutex, tasks, invoked, hist, calls>>

(* Mutant of FirstMatch: the index of the last such listener. *)
LastMatch(s, cb) ==
    LET hits == {k \in 1..Len(s) : Pointer(s[k].callback) = Pointer(cb)}
    IN IF hits = {} THEN 0 ELSE CHOOSE k \in hits : \A j \in hits : k >= j

(* The index of the first listener of slice s whose callback has the code  *)
(* pointer of cb, or 0.                                                    *)
FirstMatch(s, cb) ==
    LET hits == {k \in 1..Len(s) : Pointer(s[k].callback) = Pointer(cb)}
    IN IF hits = {} THEN 0 ELSE CHOOSE k \in hits : \A j \in hits : k <= j

(* Mutant of RemoveAt: the entries after the removed one are dropped. *)
RemoveAtTruncates(s, k) == SubSeq(s, 1, k - 1)

(* append(s[:k], s[k+1:]...) *)
RemoveAt(s, k) == SubSeq(s, 1, k - 1) \o SubSeq(s, k + 1, Len(s))

(* Mutant of removeListenerInternal: the emission is made whether or not   *)
(* an entry was found.                                                     *)
removeListenerEmitsOnMiss(t) ==
    /\ AtTop(t, {"removeListenerInternal"}, "locked")
    /\ LET f == Top(t)
           k == IF f.event \in DOMAIN listeners
                THEN FirstMatch(listeners[f.event], f.callback) ELSE 0
       IN IF k = 0
          THEN /\ stack' = SetTop(t, [f EXCEPT
                                         !.pc = IF f.flag THEN "ret" ELSE "emit"])
               /\ UNCHANGED <<listeners, hist>>
          ELSE /\ listeners' = [listeners EXCEPT
                                   ![f.event] = RemoveAt(listeners[f.event], k)]
               /\ stack' = SetTop(t, [f EXCEPT
                                         !.pc = IF f.flag THEN "ret" ELSE "emit"])
               /\ hist' = IF f.flag THEN hist
                          ELSE hist (+) SetToBag({Call("removed", f.event, f.callback)})
    /\ mutex' = Unlocked
    /\ UNCHANGED <<tasks, invoked, calls>>

(* Mutant of removeListenerInternal: suppress is not looked at. *)
removeListenerAlwaysEmits(t) ==
    /\ AtTop(t, {"removeListenerInternal"}, "locked")
    /\ LET f == Top(t)
           k == IF f.event \in DOMAIN listeners
                THEN FirstMatch(listeners[f.event], f.callback) ELSE 0
       IN IF k = 0
          THEN /\ stack' = SetTop(t, [f EXCEPT !.pc = "ret"])
               /\ UNCHANGED <<listeners, hist>>
          ELSE /\ listeners' = [listeners EXCEPT
                                   ![f.event] = RemoveAt(listeners[f.event], k)]
               /\ stack' = SetTop(t, [f EXCEPT !.pc = "emit"])
               /\ hist' = IF f.flag THEN hist
                          ELSE hist (+) SetToBag({Call("removed", f.event, f.callback)})
    /\ mutex' = Unlocked
    /\ UNCHANGED <<tasks, invoked, calls>>

(* removeListenerInternal, under the mutex: scan the key's slice, remove   *)
(* the first match, unlock.                                                *)
removeListenerInternal(t) ==
    /\ AtTop(t, {"removeListenerInternal"}, "locked")
    /\ LET f == Top(t)
           k == IF f.event \in DOMAIN listeners
                THEN FirstMatch(listeners[f.event], f.callback) ELSE 0
       IN IF k = 0
          THEN /\ stack' = SetTop(t, [f EXCEPT !.pc = "ret"])
               /\ UNCHANGED <<listeners, hist>>
          ELSE /\ listeners' = [listeners EXCEPT
                                   ![f.event] = RemoveAt(listeners[f.event], k)]
               /\ stack' = SetTop(t, [f EXCEPT
                                         !.pc = IF f.flag THEN "ret" ELSE "emit"])
               /\ hist' = IF f.flag THEN hist
                          ELSE hist (+) SetToBag({Call("removed", f.event, f.callback)})
    /\ mutex' = Unlocked
    /\ UNCHANGED <<tasks, invoked, calls>>

(* removeListenerInternal, after the unlock, when not suppressed:          *)
(* self.EmitSync("removeListener", ...).                                   *)
RemoveEmit(t) ==
    /\ AtTop(t, {"removeListenerInternal"}, "emit")
    /\ stack' = SetTopAndPush(t, [Top(t) EXCEPT !.pc = "ret"],
                              Frame("EmitSync", RemoveListenerEv, NoCallback, FALSE))
    /\ UNCHANGED <<listeners, mutex, tasks, invoked, hist, calls>>

(* Mutant of RemoveAllListeners: the key is read as a pattern and every    *)
(* key it matches is deleted.                                              *)
RemoveAllListenersMatching(t) ==
    /\ AtTop(t, {"RemoveAllListeners"}, "locked")
    /\ LET f == Top(t)
       IN listeners' =
            IF f.event = NilEvent THEN <<>>
            ELSE [k \in {q \in DOMAIN listeners : ~shouldAdd(f.event, q)} |->
                     listeners[k]]
    /\ mutex' = Unlocked
    /\ stack' = SetTop(t, [Top(t) EXCEPT !.pc = "ret"])
    /\ UNCHANGED <<tasks, invoked, hist, calls>>

(* RemoveAllListeners, under the mutex; the deferred unlock runs at return. *)
RemoveAllListeners(t) ==
    /\ AtTop(t, {"RemoveAllListeners"}, "locked")
    /\ LET f == Top(t)
       IN listeners' =
            IF f.event = NilEvent THEN <<>>
            ELSE IF f.event \notin DOMAIN listeners THEN listeners
            ELSE [k \in DOMAIN listeners \ {f.event} |-> listeners[k]]
    /\ mutex' = Unlocked
    /\ stack' = SetTop(t, [Top(t) EXCEPT !.pc = "ret"])
    /\ UNCHANGED <<tasks, invoked, hist, calls>>

(* Listeners(event), under the mutex: the snapshot; called by itself or as *)
(* the first statement of EmitSync and EmitAsync.                          *)
ListenersSnapshot(t) ==
    /\ AtTop(t, {"Listeners", "EmitSync", "EmitAsync"}, "locked")
    /\ \E s \in Listeners(listeners, Top(t).event) :
          stack' = SetTop(t, [Top(t) EXCEPT
                                 !.snap = s,
                                 !.pc = IF Top(t).op = "Listeners" THEN "ret" ELSE "loop"])
    /\ mutex' = Unlocked
    /\ UNCHANGED <<listeners, tasks, invoked, hist, calls>>

(* Mutant of EmitRemoveOnce: the once listener is not removed. *)
EmitKeepsOnce(t) ==
    /\ AtTop(t, {"EmitSync", "EmitAsync"}, "loop")
    /\ Top(t).i <= Len(Top(t).snap)
    /\ Top(t).snap[Top(t).i].once
    /\ stack' = SetTop(t, [Top(t) EXCEPT !.pc = "invoke"])
    /\ UNCHANGED <<listeners, mutex, tasks, invoked, hist, calls>>

(* EmitSync and EmitAsync, the loop body for a once listener:              *)
(* self.removeListenerInternal(event, v.callback, true).                   *)
EmitRemoveOnce(t) ==
    /\ AtTop(t, {"EmitSync", "EmitAsync"}, "loop")
    /\ Top(t).i <= Len(Top(t).snap)
    /\ Top(t).snap[Top(t).i].once
    /\ stack' = SetTopAndPush(t, [Top(t) EXCEPT !.pc = "invoke"],
                              Frame("removeListenerInternal", Top(t).event,
                                    Top(t).snap[Top(t).i].callback, TRUE))
    /\ UNCHANGED <<listeners, mutex, tasks, invoked, hist, calls>>

(* The loop of EmitSync or EmitAsync is at the call of v.callback. *)
AtInvoke(t, op) ==
    /\ Depth(t) > 0
    /\ Top(t).op = op
    /\ \/ Top(t).pc = "invoke"
       \/ /\ Top(t).pc = "loop"
          /\ Top(t).i <= Len(Top(t).snap)
          /\ ~Top(t).snap[Top(t).i].once

(* The loop goes on to the next listener of the snapshot; done records the *)
(* callbacks this dispatch has called or started.                          *)
Advance(f) ==
    [f EXCEPT !.pc = "loop", !.i = f.i + 1,
              !.done = Append(f.done, f.snap[f.i].callback)]

(* Mutant of EmitSyncInvoke: a listener that is no longer registered is    *)
(* skipped.                                                                *)
EmitSyncInvokeListed(t) ==
    /\ AtInvoke(t, "EmitSync")
    /\ LET cb == Top(t).snap[Top(t).i].callback
           listed == \E k \in DOMAIN listeners : \E j \in 1..Len(listeners[k]) :
                        listeners[k][j].callback = cb
       IN IF listed \/ Top(t).snap[Top(t).i].once
          THEN /\ invoked' = [invoked EXCEPT ![cb] = @ + 1]
               /\ stack' = SetTopAndPush(t, Advance(Top(t)),
                              [Frame("callback", Top(t).event, cb, FALSE)
                                  EXCEPT !.pc = "body"])
          ELSE /\ stack' = SetTop(t, [Top(t) EXCEPT !.pc = "loop", !.i = @ + 1])
               /\ UNCHANGED invoked
    /\ UNCHANGED <<listeners, mutex, tasks, hist, calls>>

(* EmitSync: v.callback(args...) on the caller's own stack. *)
EmitSyncInvoke(t) ==
    /\ AtInvoke(t, "EmitSync")
    /\ LET cb == Top(t).snap[Top(t).i].callback
       IN /\ invoked' = [invoked EXCEPT ![cb] = @ + 1]
          /\ stack' = SetTopAndPush(t, Advance(Top(t)),
                         [Frame("callback", Top(t).event, cb, FALSE) EXCEPT !.pc = "body"])
    /\ UNCHANGED <<listeners, mutex, tasks, hist, calls>>

(* EmitAsync: go v.callback(args...). *)
EmitAsyncGo(t) ==
    /\ AtInvoke(t, "EmitAsync")
    /\ tasks' = tasks (+) SetToBag({Top(t).snap[Top(t).i].callback})
    /\ stack' = SetTop(t, Advance(Top(t)))
    /\ UNCHANGED <<listeners, mutex, invoked, hist, calls>>

(* A goroutine started by EmitAsync runs its callback. *)
RunTask(cb) ==
    /\ BagIn(cb, tasks)
    /\ tasks' = tasks (-) SetToBag({cb})
    /\ invoked' = [invoked EXCEPT ![cb] = @ + 1]
    /\ UNCHANGED <<listeners, mutex, stack, hist, calls>>

(* The callback's body ends. *)
CallbackReturn(t) ==
    /\ AtTop(t, {"callback"}, "body")
    /\ stack' = [stack EXCEPT ![t] = SubSeq(@, 1, Len(@) - 1)]
    /\ UNCHANGED <<listeners, mutex, tasks, invoked, hist, calls>>

(* The body of a callback called by EmitSync panics. *)
CallbackPanics(t) ==
    /\ AtTop(t, {"callback"}, "body")
    /\ stack' = SetTop(t, [Top(t) EXCEPT !.pc = "panic"])
    /\ UNCHANGED <<listeners, mutex, tasks, invoked, hist, calls>>

(* The depths a panic of caller t can unwind to: the caller's own code,    *)
(* below every frame, or the body of an enclosing callback.                *)
RecoverDepths(t) ==
    {0} \cup {d \in 1..(Depth(t) - 1) : stack[t][d].op = "callback"}

(* Mutant of Unwind: EmitSync recovers the panic of a callback and goes on *)
(* with the next listener.                                                 *)
UnwindStopsInEmitSync(t) ==
    /\ AtTop(t, {"callback"}, "panic")
    /\ stack' = [stack EXCEPT ![t] = SubSeq(@, 1, Len(@) - 1)]
    /\ UNCHANGED <<listeners, mutex, tasks, invoked, hist, calls>>

(* The panic unwinds the frames of the callback, of EmitSync and of any    *)
(* method that made the emission, none of which recovers or has a deferred *)
(* call, up to code of the user's that recovers.                           *)
Unwind(t) ==
    /\ AtTop(t, {"callback"}, "panic")
    /\ \E d \in RecoverDepths(t) :
          stack' = [stack EXCEPT ![t] = SubSeq(@, 1, d)]
    /\ UNCHANGED <<listeners, mutex, tasks, invoked, hist, calls>>

(* The frame every caller is left with when the process has exited; flag   *)
(* tells whether the panic was that of a goroutine started by EmitAsync.   *)
Exited(cb, async) ==
    [Frame("exit", NilEvent, cb, async) EXCEPT !.pc = "exit"]

(* No code of the user's recovers the panic: the runtime prints it and the *)
(* process exits, every caller and goroutine with it.                      *)
Crash(t) ==
    /\ AtTop(t, {"callback"}, "panic")
    /\ stack' = [c \in Callers |-> <<Exited(Top(t).callback, FALSE)>>]
    /\ tasks' = EmptyBag
    /\ UNCHANGED <<listeners, mutex, invoked, hist, calls>>

(* A goroutine started by EmitAsync runs its callback, which panics: there *)
(* is no frame below it that could recover, and the process exits.         *)
TaskPanics(cb) ==
    /\ BagIn(cb, tasks)
    /\ invoked' = [invoked EXCEPT ![cb] = @ + 1]
    /\ stack' = [c \in Callers |-> <<Exited(cb, TRUE)>>]
    /\ tasks' = EmptyBag
    /\ UNCHANGED <<listeners, mutex, hist, calls>>

(* The frame below the top one, once the call on top has returned: a       *)
(* meta-emission leaves its snapshot and its record of callbacks called    *)
(* with the On, Once or removeListenerInternal that made it.               *)
Returned(below, top) ==
    IF top.op = "EmitSync" /\ below.op \in {"On", "Once", "removeListenerInternal"}
    THEN [below EXCEPT !.snap = top.snap, !.done = top.done]
    ELSE below

(* return self (or the snapshot): the frame is popped. *)
Return(t) ==
    /\ Depth(t) > 0
    /\ \/ Top(t).pc = "ret"
       \/ /\ Top(t).op \in {"EmitSync", "EmitAsync"}
          /\ Top(t).pc = "loop"
          /\ Top(t).i > Len(Top(t).snap)
    /\ stack' = [stack EXCEPT ![t] =
                    IF Len(@) = 1 THEN <<>>
                    ELSE Append(SubSeq(@, 1, Len(@) - 2),
                                Returned(@[Len(@) - 1], @[Len(@)]))]
    /\ UNCHANGED <<listeners, mutex, tasks, invoked, hist, calls>>

(* The steps every call is made of. *)
Step(t) ==
    \/ Lock(t)
    \/ OnAppend(t)
    \/ OnEmit(t)
    \/ removeListenerInternal(t)
    \/ RemoveEmit(t)
    \/ ListenersSnapshot(t)
    \/ EmitRemoveOnce(t)
    \/ EmitSyncInvoke(t)
    \/ CallbackReturn(t)
    \/ Return(t)

----------------------------------------------------------------------------
(* Spec: one caller makes calls one after the other on an exact key and a  *)
(* wildcard key; callbacks only count their invocations.                   *)

SeqKeys == {EvA, PatAStar}
SeqEvents == {EvA}
SeqCallbacks == {Fn1, Fn2}

(* A caller that is inside no call may make one, up to max calls in all. *)
MayCall(t, max) == Idle(t) /\ calls < max

Next ==
    \/ \E e \in SeqKeys, cb \in SeqCallbacks :
          MayCall("c1", MaxCalls) /\ CallOn("c1", e, cb)
    \/ \E e \in SeqKeys, cb \in SeqCallbacks :
          MayCall("c1", MaxCalls) /\ CallOnce("c1", e, cb)
    \/ \E e \in SeqKeys, cb \in SeqCallbacks :
          MayCall("c1", MaxCalls) /\ CallRemoveListener("c1", e, cb)
    \/ \E e \in SeqEvents : MayCall("c1", MaxCalls) /\ CallEmitSync("c1", e)
    \/ \E e \in SeqEvents : MayCall("c1", MaxCalls) /\ CallEmitAsync("c1", e)
    \/ Step("c1")
    \/ EmitAsyncGo("c1")
    \/ \E cb \in AllCallbacks : RunTask(cb)

Spec == Init /\ [][Next]_vars

----------------------------------------------------------------------------
(* SpecReg: one caller registers and removes listeners, one call after the *)
(* other, on an exact key and on the two meta-event keys; two of the three *)
(* callbacks are closures of one function literal.                         *)

RegKeys == {EvA, NewListenerEv, RemoveListenerEv}
RegCallbacks == {Fn1, Fn1b, Fn2}

NextReg ==
    \/ \E e \in RegKeys, cb \in RegCallbacks :
          MayCall("c1", MaxRegCalls) /\ CallOn("c1", e, cb)
    \/ \E e \in RegKeys, cb \in RegCallbacks :
          MayCall("c1", MaxRegCalls) /\ CallOnce("c1", e, cb)
    \/ \E e \in RegKeys, cb \in RegCallbacks :
          MayCall("c1", MaxRegCalls) /\ CallRemoveListener("c1", e, cb)
    \/ Step("c1")

SpecReg == Init /\ [][NextReg]_vars

----------------------------------------------------------------------------
(* SpecConc: two callers make calls on one exact key at the same time,     *)
(* their steps interleaved in every way the mutex allows.                  *)

ConcKeys == {EvA}
ConcCallbacks == {Fn1, Fn2}

NextConc ==
    \/ \E t \in Callers, e \in ConcKeys, cb \in ConcCallbacks :
          MayCall(t, MaxConcCalls) /\ CallOn(t, e, cb)
    \/ \E t \in Callers, e \in ConcKeys, cb \in ConcCallbacks :
          MayCall(t, MaxConcCalls) /\ CallOnce(t, e, cb)
    \/ \E t \in Callers, e \in ConcKeys, cb \in ConcCallbacks :
          MayCall(t, MaxConcCalls) /\ CallRemoveListener(t, e, cb)
    \/ \E t \in Callers, e \in ConcKeys : MayCall(t, MaxConcCalls) /\ CallEmitSync(t, e)
    \/ \E t \in Callers, e \in ConcKeys : MayCall(t, MaxConcCalls) /\ CallEmitAsync(t, e)
    \/ \E t \in Callers : Step(t)
    \/ \E t \in Callers : EmitAsyncGo(t)
    \/ \E cb \in AllCallbacks : RunTask(cb)

SpecConc == Init /\ [][NextConc]_vars

----------------------------------------------------------------------------
(* SpecNest: one caller, and callbacks whose body calls the API: any       *)
(* method, on an exact key or on a meta-event key, before it returns.      *)

NestKeys == {EvA, NewListenerEv, RemoveListenerEv}
NestEvents == {EvA}
NestCallbacks == {Fn1}

(* A caller inside no call, or the callback it is running, may make a      *)
(* call.                                                                   *)
MayCallNested(t, max) == (Idle(t) \/ InCallback(t)) /\ calls < max

NextNest ==
    \/ \E e \in NestKeys, cb \in NestCallbacks :
          MayCallNested("c1", MaxNestCalls) /\ CallOn("c1", e, cb)
    \/ \E e \in NestKeys, cb \in NestCallbacks :
          MayCallNested("c1", MaxNestCalls) /\ CallOnce("c1", e, cb)
    \/ \E e \in NestKeys, cb \in NestCallbacks :
          MayCallNested("c1", MaxNestCalls) /\ CallRemoveListener("c1", e, cb)
    \/ \E e \in NestKeys \cup {NilEvent} :
          MayCallNested("c1", MaxNestCalls) /\ CallRemoveAllListeners("c1", e)
    \/ \E e \in NestEvents : MayCallNested("c1", MaxNestCalls) /\ CallListeners("c1", e)
    \/ \E e \in NestEvents : MayCallNested("c1", MaxNestCalls) /\ CallEmitSync("c1", e)
    \/ \E e \in NestEvents : MayCallNested("c1", MaxNestCalls) /\ CallEmitAsync("c1", e)
    \/ Step("c1")
    \/ RemoveAllListeners("c1")
    \/ EmitAsyncGo("c1")
    \/ \E cb \in AllCallbacks : RunTask(cb)

SpecNest == Init /\ [][NextNest]_vars

----------------------------------------------------------------------------
(* SpecMatch: one caller registers listeners on exact and wildcard keys,   *)
(* clears keys or the whole registry, and reads the listeners of events.   *)

MatchKeys == {MatchAll, PatAStar, PatStarB, EvA, EvAB}
MatchEvents == {EvA, EvB, EvAB, EvBA, EmptyEvent}
MatchCallbacks == {Fn1, Fn2}

NextMatch ==
    \/ \E e \in MatchKeys, cb \in MatchCallbacks :
          MayCall("c1", MaxMatchCalls) /\ CallOn("c1", e, cb)
    \/ \E e \in MatchKeys \cup {NilEvent} :
          MayCall("c1", MaxMatchCalls) /\ CallRemoveAllListeners("c1", e)
    \/ \E e \in MatchEvents : MayCall("c1", MaxMatchCalls) /\ CallListeners("c1", e)
    \/ Lock("c1")
    \/ OnAppend("c1")
    \/ OnEmit("c1")
    \/ RemoveAllListeners("c1")
    \/ ListenersSnapshot("c1")
    \/ Return("c1")

SpecMatch == Init /\ [][NextMatch]_vars

----------------------------------------------------------------------------
(* SpecPanic: one caller makes calls one after the other on an exact key   *)
(* and on "newListener"; a callback may panic, called by EmitSync or run   *)
(* as a goroutine.                                                         *)

PanicKeys == {EvA, NewListenerEv}
PanicEvents == {EvA}
PanicCallbacks == {Fn1, Fn2}

NextPanic ==
    \/ \E e \in PanicKeys, cb \in PanicCallbacks :
          MayCall("c1", MaxPanicCalls) /\ CallOn("c1", e, cb)
    \/ \E e \in PanicKeys, cb \in PanicCallbacks :
          MayCall("c1", MaxPanicCalls) /\ CallOnce("c1", e, cb)
    \/ \E e \in PanicKeys, cb \in PanicCallbacks :
          MayCall("c1", MaxPanicCalls) /\ CallRemoveListener("c1", e, cb)
    \/ \E e \in PanicEvents : MayCall("c1", MaxPanicCalls) /\ CallEmitSync("c1", e)
    \/ \E e \in PanicEvents : MayCall("c1", MaxPanicCalls) /\ CallEmitAsync("c1", e)
    \/ Step("c1")
    \/ EmitAsyncGo("c1")
    \/ \E cb \in AllCallbacks : RunTask(cb)
    \/ CallbackPanics("c1")
    \/ Unwind("c1")
    \/ Crash("c1")
    \/ \E cb \in AllCallbacks : TaskPanics(cb)

SpecPanic == Init /\ [][NextPanic]_vars

----------------------------------------------------------------------------
(* Operators the properties are stated with. *)

RECURSIVE SumCopies(_, _)
SumCopies(B, S) ==
    IF S = {} THEN 0
    ELSE LET x == CHOOSE y \in S : TRUE
         IN CopiesIn(x, B) + SumCopies(B, S \ {x})

(* The number of On and Once calls that have registered on key p, and the  *)
(* number of RemoveListener calls that have removed an entry of key p.     *)
Adds(p) ==
    SumCopies(hist, {c \in BagToSet(hist) : c.op \in {"On", "Once"} /\ c.event = p})
Removes(p) ==
    SumCopies(hist, {c \in BagToSet(hist) : c.op = "removed" /\ c.event = p})

Quiescent == \A t \in Callers : Idle(t)
IsExact(p) == ~Contains(p, Star)
MetaEvents == {NewListenerEv, RemoveListenerEv}

----------------------------------------------------------------------------
(* C1 as stated: after any sequence of On, Once and RemoveListener calls   *)
(* on one exact key p, with no other key registered and no emit,           *)
(* ListenersCount(p) is the number of On and Once calls on p minus the     *)
(* number of RemoveListener calls that removed an entry.  It fails on the  *)
(* meta-event keys: Once("newListener", f) emits "newListener" itself and  *)
(* so consumes the listener it has just registered.                        *)
C1_CountAnyExactKey ==
    \A p \in RegKeys :
        (Quiescent /\ IsExact(p) /\ DOMAIN listeners \subseteq {p})
            => ListenersCount(listeners, p) = Adds(p) - Removes(p)

(* C1 amended: the same for every exact key p other than "newListener" and *)
(* "removeListener".                                                       *)
C1_CountNonMetaKey ==
    \A p \in RegKeys \ MetaEvents :
        (Quiescent /\ IsExact(p) /\ DOMAIN listeners \subseteq {p})
            => ListenersCount(listeners, p) = Adds(p) - Removes(p)

(* C1 witness: two registrations (one of them a Once) and one removal on   *)
(* the only key, one listener left.                                        *)
C1_Witness ==
    /\ Quiescent
    /\ DOMAIN listeners = {EvA}
    /\ Adds(EvA) = 2
    /\ Removes(EvA) = 1
    /\ \E c \in BagToSet(hist) : c.op = "Once"
    /\ ListenersCount(listeners, EvA) = 1

----------------------------------------------------------------------------
(* The callbacks of the listeners Listeners(e) returns. *)
Registered(e) ==
    UNION {{listeners[k][i].callback : i \in 1..Len(listeners[k])} :
              k \in MatchingKeys(listeners, e)}

(* How often f has been invoked, counting the goroutines EmitAsync has     *)
(* started for it.                                                         *)
Fired(f) == invoked[f] + CopiesIn(f, tasks)

SameCode(f) == {c \in BagToSet(hist) : Pointer(c.callback) = Pointer(f)}

(* f has been registered by one call in all, Once(e, f), and no            *)
(* RemoveListener has removed it.                                          *)
OnceOnly(e, f) ==
    /\ SumCopies(hist, SameCode(f)) = 1
    /\ Call("Once", e, f) \in SameCode(f)

(* A call of EmitSync or EmitAsync made by the caller itself has gone      *)
(* through its snapshot and is about to return.                            *)
EmitEnds(t, e) ==
    /\ Depth(t) = 1
    /\ Top(t).op \in {"EmitSync", "EmitAsync"}
    /\ Top(t).event = e
    /\ Top(t).pc = "loop"
    /\ Top(t).i > Len(Top(t).snap)

(* The once listener f of key e has fired exactly once and is no longer    *)
(* listed, or has not fired and is still listed; and it is no longer       *)
(* listed when an emit of event ends.                                      *)
OnceFiresOnce(e, f, event) ==
    /\ Fired(f) <= 1
    /\ Quiescent => (Fired(f) = 1) = (f \notin Registered(event))
    /\ EmitEnds("c1", event) => Fired(f) = 1 /\ f \notin Registered(event)

(* C2: a callback registered once, with Once on an exact event name, is    *)
(* invoked exactly once over any number of sequential EmitSync and         *)
(* EmitAsync calls of that event, and is not listed after the first.       *)
C2_OnceExactFiresOnce ==
    \A e \in SeqEvents, f \in SeqCallbacks :
        (IsExact(e) /\ OnceOnly(e, f)) => OnceFiresOnce(e, f, e)

(* C2 witness: after Once(e, f), On(e, g) and two emits of e, f has been   *)
(* invoked once and g twice.                                               *)
C2_Witness ==
    /\ Quiescent
    /\ OnceOnly(EvA, Fn1)
    /\ invoked[Fn1] = 1
    /\ invoked[Fn2] = 2
    /\ Fn1 \notin Registered(EvA)

----------------------------------------------------------------------------
(* C3: a listener registered with Once on a wildcard pattern is consumed   *)
(* by the first emit of an event name the pattern matches: it is invoked   *)
(* exactly once and is listed for no event afterwards.  The code removes   *)
(* the once listener from the key named by the emitted event, not from the *)
(* pattern's key, so the listener stays and fires at every emit.           *)
C3_OnceWildcardFiresOnce ==
    \A p \in SeqKeys, f \in SeqCallbacks, e \in SeqEvents :
        (~IsExact(p) /\ shouldAdd(p, e) /\ OnceOnly(p, f)) => OnceFiresOnce(p, f, e)

----------------------------------------------------------------------------
(* Slice s holds slice part as a block, in part's order. *)
HoldsBlock(s, part) ==
    \E k \in 0..(Len(s) - Len(part)) :
        \A j \in 1..Len(part) : s[k + j] = part[j]

(* The caller takes the step of the call on top of its stack that is at    *)
(* pc, in a call of one of ops.                                            *)
Takes(t, ops, pc) == AtTop(t, ops, pc) /\ stack'[t] # stack[t]

(* The snapshot of an EmitSync holds the listeners of the event's own key  *)
(* in the order of the key's slice, which is the order of registration.    *)
SnapshotKeepsKeyOrder ==
    \A t \in Callers :
        (Takes(t, {"EmitSync"}, "locked") /\ Top(t).event \in DOMAIN listeners)
            => HoldsBlock(stack'[t][Depth(t)].snap, listeners[Top(t).event])

(* An EmitSync has called the first i - 1 callbacks of its snapshot, in    *)
(* the snapshot's order, and calls the next one only when it is the call   *)
(* its caller is in, that is when the callback before has returned.        *)
InvokedInSnapshotOrder ==
    \A t \in Callers : \A d \in 1..Depth(t) :
        LET f == stack[t][d]
        IN f.op = "EmitSync" =>
              /\ Len(f.done) = f.i - 1
              /\ f.i <= Len(f.snap) + 1
              /\ \A j \in 1..Len(f.done) : f.done[j] = f.snap[j].callback
              /\ (d < Depth(t) /\ stack[t][d + 1].op = "callback")
                    => /\ f.i > 1
                       /\ stack[t][d + 1].callback = f.done[f.i - 1]

(* C5: within one EmitSync(e), the listeners of the exact key e are        *)
(* invoked in their order of registration, each after the one before has   *)
(* returned.                                                               *)
C5_RegistrationOrder == [][SnapshotKeepsKeyOrder]_vars /\ []InvokedInSnapshotOrder

(* C5 witness: EmitSync(e) ends having called Fn2 then Fn1, registered on  *)
(* key e in that order.                                                    *)
C5_Witness ==
    /\ EmitEnds("c1", EvA)
    /\ Top("c1").op = "EmitSync"
    /\ EvA \in DOMAIN listeners
    /\ listeners[EvA] = <<Listener(Fn2, FALSE), Listener(Fn1, FALSE)>>
    /\ Top("c1").done = <<Fn2, Fn1>>

----------------------------------------------------------------------------
(* Two callbacks are the same callback for RemoveListener: same code       *)
(* pointer.                                                                *)
SameCallback(f, g) == Pointer(f) = Pointer(g)

(* Slice new is slice old without its first entry whose callback is f. *)
FirstRemoved(old, new, f) ==
    \E k \in 1..Len(old) :
        /\ SameCallback(old[k].callback, f)
        /\ \A j \in 1..(k - 1) : ~SameCallback(old[j].callback, f)
        /\ Len(new) = Len(old) - 1
        /\ \A j \in 1..(k - 1) : new[j] = old[j]
        /\ \A j \in k..Len(new) : new[j] = old[j + 1]

(* The step of RemoveListener(p, f) that holds the mutex removes the first *)
(* entry of key p whose callback is f, if there is one, and changes        *)
(* nothing else of the registry.                                           *)
RemovesFirstMatchOnly ==
    \A t \in Callers :
        Takes(t, {"removeListenerInternal"}, "locked") =>
            LET p == Top(t).event
                f == Top(t).callback
            IN /\ DOMAIN listeners' = DOMAIN listeners
               /\ \A q \in DOMAIN listeners \ {p} : listeners'[q] = listeners[q]
               /\ p \in DOMAIN listeners =>
                     IF \E k \in 1..Len(listeners[p]) :
                            SameCallback(listeners[p][k].callback, f)
                     THEN FirstRemoved(listeners[p], listeners'[p], f)
                     ELSE listeners'[p] = listeners[p]

(* After On(e, f1), On(e, f2), RemoveListener(e, f1), the emit of e that   *)
(* follows calls f2 once and f1 not at all, and ListenersCount(e) is 1.    *)
RemoveScenario ==
    \A f1, f2 \in SeqCallbacks :
        (/\ ~SameCallback(f1, f2)
         /\ hist = SetToBag({Call("On", EvA, f1), Call("On", EvA, f2),
                             Call("removed", EvA, f1)})
         /\ calls = 4
         /\ EmitEnds("c1", EvA))
            => /\ Fired(f2) = 1
               /\ Fired(f1) = 0
               /\ Top("c1").done = <<f2>>
               /\ ListenersCount(listeners, EvA) = 1

(* C6: RemoveListener(p, f) removes exactly the first entry of key p whose *)
(* callback is f and leaves the other entries, their order and the other   *)
(* keys as they are; so after On(e, f1), On(e, f2), RemoveListener(e, f1)  *)
(* an EmitSync(e) invokes f2 once and f1 never, ListenersCount(e) being 1. *)
C6_RemoveFirstOnly == [][RemovesFirstMatchOnly]_vars /\ []RemoveScenario

(* C6 witness: the scenario has run and the EmitSync that ends it has      *)
(* called f2 once.                                                         *)
C6_Witness ==
    /\ hist = SetToBag({Call("On", EvA, Fn1), Call("On", EvA, Fn2),
                        Call("removed", EvA, Fn1)})
    /\ calls = 4
    /\ EmitEnds("c1", EvA)
    /\ Top("c1").op = "EmitSync"
    /\ invoked[Fn2] = 1
    /\ listeners[EvA] = <<Listener(Fn2, FALSE)>>

----------------------------------------------------------------------------
(* C4: when two dispatches of one event overlap, a once listener           *)
(* registered once on it is invoked exactly once in all.  Both dispatches  *)
(* can take their snapshot before either removes the listener; the second  *)
(* removal finds nothing and the callback is called all the same.          *)
C4_OnceFiresOnceOverlapping ==
    \A e \in ConcKeys, f \in ConcCallbacks : OnceOnly(e, f) => Fired(f) <= 1

----------------------------------------------------------------------------
(* The number of entries of key p whose callback has the code of f. *)
Entries(p, f) ==
    IF p \in DOMAIN listeners
    THEN Cardinality({k \in 1..Len(listeners[p]) :
                         SameCallback(listeners[p][k].callback, f)})
    ELSE 0

(* The registrations of f's code on key p less the removals of it. *)
Balance(p, f) ==
    SumCopies(hist, {c \in SameCode(f) : c.op = "On" /\ c.event = p})
        - SumCopies(hist, {c \in SameCode(f) : c.op = "removed" /\ c.event = p})

NoOnceCalled == \A c \in BagToSet(hist) : c.op # "Once"

(* Every caller inside a call can take a step, or waits for the mutex that *)
(* another caller holds and can release.                                   *)
NoCallerStuck ==
    \A t \in Callers :
        ~Idle(t) =>
            \/ ENABLED (Step(t) \/ EmitAsyncGo(t))
            \/ /\ Top(t).pc = "lock"
               /\ mutex \in Callers \ {t}
               /\ ENABLED Step(mutex)

(* C8: however On, RemoveListener and EmitAsync of concurrent callers      *)
(* interleave, no call blocks for ever and, once all calls have returned,  *)
(* every key holds one entry for each On less one for each RemoveListener  *)
(* that found a match.                                                     *)
C8_NoLostUpdate ==
    /\ NoCallerStuck
    /\ (Quiescent /\ NoOnceCalled) =>
          \A p \in ConcKeys, f \in ConcCallbacks :
              /\ Entries(p, f) = Balance(p, f)
              /\ ListenersCount(listeners, p) = Adds(p) - Removes(p)

(* C8 witness: one caller waits for the mutex in On while the other holds  *)
(* it in RemoveListener, an entry being there to remove.                   *)
C8_Witness ==
    /\ NoOnceCalled
    /\ AtTop("c1", {"On"}, "lock")
    /\ AtTop("c2", {"removeListenerInternal"}, "locked")
    /\ mutex = "c2"
    /\ Entries(EvA, Top("c2").callback) = 1
    /\ Adds(EvA) = 1

----------------------------------------------------------------------------
RECURSIVE SeqToBag(_)
SeqToBag(s) == IF s = <<>> THEN EmptyBag ELSE SetToBag({Head(s)}) (+) SeqToBag(Tail(s))

RECURSIVE BagOfKeys(_, _)
BagOfKeys(reg, S) ==
    IF S = {} THEN EmptyBag
    ELSE LET k == CHOOSE x \in S : TRUE
         IN SeqToBag(reg[k]) (+) BagOfKeys(reg, S \ {k})

(* The snapshot of an emit is made of the listeners that match the event   *)
(* at the instant it is taken, each once.                                  *)
SnapshotIsMatching ==
    \A t \in Callers :
        Takes(t, {"EmitSync", "EmitAsync"}, "locked") =>
            SeqToBag(stack'[t][Depth(t)].snap)
                = BagOfKeys(listeners, {k \in DOMAIN listeners :
                                           shouldAdd(k, Top(t).event)})

(* An emit calls (EmitSync) or starts (EmitAsync) the next callback of its *)
(* snapshot, whatever the registry holds by then.                          *)
InvokesNextOfSnapshot ==
    \A t \in Callers :
        (/\ Depth(t) > 0
         /\ Top(t).op \in {"EmitSync", "EmitAsync"}
         /\ Top(t).i <= Len(Top(t).snap)
         /\ Top(t).pc \in {"loop", "invoke"}
         /\ stack'[t] # stack[t])
            => LET f == Top(t)
                   cb == f.snap[f.i].callback
                   g == stack'[t][Depth(t)]
               IN \/ f.pc = "loop" /\ f.snap[f.i].once /\ g.pc = "invoke" /\ g.i = f.i
                  \/ /\ g.i = f.i + 1
                     /\ g.snap = f.snap
                     /\ g.done = Append(f.done, cb)
                     /\ invoked'[cb] + CopiesIn(cb, tasks') = Fired(cb) + 1

(* What an emit has called so far is the snapshot up to its index. *)
CalledIsSnapshotPrefix ==
    \A t \in Callers : \A d \in 1..Depth(t) :
        LET f == stack[t][d]
        IN f.op \in {"EmitSync", "EmitAsync"} =>
              /\ Len(f.done) = f.i - 1
              /\ f.i <= Len(f.snap) + 1
              /\ \A j \in 1..Len(f.done) : f.done[j] = f.snap[j].callback

(* C9: one emit invokes exactly the listeners that matched the event when  *)
(* its snapshot was taken, each once; one removed afterwards is still      *)
(* invoked, one added afterwards is not.                                   *)
C9_SnapshotDispatch ==
    /\ [][SnapshotIsMatching /\ InvokesNextOfSnapshot]_vars
    /\ []CalledIsSnapshotPrefix

(* C9 witness: an emit ends having called Fn1, registered once, which the  *)
(* other caller has removed since the snapshot.                            *)
C9_Witness ==
    /\ EmitEnds("c1", EvA)
    /\ Top("c1").done = <<Fn1>>
    /\ hist = SetToBag({Call("On", EvA, Fn1), Call("removed", EvA, Fn1)})
    /\ listeners[EvA] = <<>>

----------------------------------------------------------------------------
(* A caller holds the mutex only while the call it is executing is between *)
(* its Lock and its Unlock: not inside a callback, a meta-emission or any  *)
(* other call made from there.                                             *)
HeldOnlyInCriticalSection ==
    /\ mutex \in Callers \cup {Unlocked}
    /\ \A t \in Callers : mutex = t => Depth(t) > 0 /\ Top(t).pc = "locked"

(* The steps that call a callback, start one in a goroutine or emit a      *)
(* meta-event are taken with the mutex unlocked.                           *)
CallsOutUnlocked ==
    \A t \in Callers :
        (\/ Len(stack'[t]) > Len(stack[t]) /\ ~Idle(t)
         \/ tasks' # tasks /\ stack'[t] # stack[t])
            => mutex # t /\ mutex' # t

(* A caller inside a call, at any depth of callbacks, can take a step: it  *)
(* never waits for a mutex it holds itself.                                *)
NeverSelfBlocked ==
    ~Idle("c1") =>
        /\ ENABLED (Step("c1") \/ RemoveAllListeners("c1") \/ EmitAsyncGo("c1"))
        /\ Top("c1").pc = "lock" => mutex = Unlocked

(* C7: no caller invokes a callback or emits a meta-event while it holds   *)
(* the mutex, on any path of any method; so a listener that calls the API  *)
(* from inside its invocation never blocks on the mutex.                   *)
C7_NoCallbackUnderMutex ==
    /\ [](HeldOnlyInCriticalSection /\ NeverSelfBlocked)
    /\ [][CallsOutUnlocked]_vars

(* C7 witness: a "newListener" listener, called by the emission of an On,  *)
(* has called On itself, which holds the mutex.                            *)
C7_Witness ==
    /\ Depth("c1") = 4
    /\ stack["c1"][1].op = "On"
    /\ stack["c1"][2].op = "EmitSync"
    /\ stack["c1"][2].event = NewListenerEv
    /\ stack["c1"][3].op = "callback"
    /\ stack["c1"][4].op = "On"
    /\ stack["c1"][4].pc = "locked"
    /\ mutex = "c1"

----------------------------------------------------------------------------
(* The number of once listeners of slice s. *)
OnceCount(s) == Cardinality({j \in 1..Len(s) : s[j].once})

(* When On or Once is about to return, its "newListener" emission has      *)
(* called every listener of its snapshot once, in order, and the snapshot  *)
(* was every listener of "newListener": those still registered and the     *)
(* once listeners the emission has consumed.                               *)
OnHasEmitted ==
    \A t \in Callers :
        AtTop(t, {"On", "Once"}, "ret") =>
            LET f == Top(t)
            IN /\ f.done = [j \in 1..Len(f.snap) |-> f.snap[j].callback]
               /\ Len(f.snap) = ListenersCount(listeners, NewListenerEv)
                                    + OnceCount(f.snap)

(* The emission of On(p, f) takes its snapshot with the new listener at    *)
(* the end of key p's slice, and leaves the mutex unlocked for the         *)
(* callbacks; the snapshot is what is registered on "newListener" then.    *)
OnEmitsAfterAppend ==
    \A t \in Callers :
        (/\ Takes(t, {"EmitSync"}, "locked")
         /\ Depth(t) > 1
         /\ stack[t][Depth(t) - 1].op \in {"On", "Once"})
            => LET on == stack[t][Depth(t) - 1]
                   s == listeners[on.event]
               IN /\ Top(t).event = NewListenerEv
                  /\ on.event \in DOMAIN listeners
                  /\ Len(s) > 0
                  /\ s[Len(s)] = Listener(on.callback, on.op = "Once")
                  /\ ListenersCount(listeners, on.event) > 0
                  /\ mutex = t /\ mutex' = Unlocked
                  /\ SeqToBag(stack'[t][Depth(t)].snap)
                        = BagOfKeys(listeners, MatchingKeys(listeners, NewListenerEv))

(* C10: every On and Once call, before it returns, invokes each listener   *)
(* registered on "newListener" exactly once, after the new listener has    *)
(* been appended and the mutex released.                                   *)
C10_NewListenerEmitted == []OnHasEmitted /\ [][OnEmitsAfterAppend]_vars

(* C10 witness: On(e, f) is about to return, its emission having called    *)
(* the two listeners of "newListener", which their own registrations had   *)
(* already called three times.                                             *)
C10_Witness ==
    /\ AtTop("c1", {"On"}, "ret")
    /\ Top("c1").event = EvA
    /\ Len(Top("c1").done) = 2
    /\ Len(listeners[NewListenerEv]) = 2
    /\ invoked[Fn1] + invoked[Fn1b] + invoked[Fn2] = 5

----------------------------------------------------------------------------
(* The removal step ends with the mutex unlocked, and goes on to the       *)
(* emission exactly when it has removed an entry and is not suppressed.    *)
RemovalDecidesEmission ==
    \A t \in Callers :
        Takes(t, {"removeListenerInternal"}, "locked") =>
            LET f == Top(t)
                g == stack'[t][Depth(t)]
            IN /\ mutex' = Unlocked
               /\ Len(stack'[t]) = Depth(t)
               /\ g.pc = IF listeners' # listeners /\ ~f.flag THEN "emit" ELSE "ret"
               /\ listeners' # listeners =>
                     Len(listeners'[f.event]) = Len(listeners[f.event]) - 1

(* A removal that goes on to the emission makes it as its next step, with  *)
(* the registry as the removal left it, and is then left with returning.   *)
RemovalEmitsOnce ==
    \A t \in Callers :
        Takes(t, {"removeListenerInternal"}, "emit") =>
            /\ mutex # t
            /\ listeners' = listeners
            /\ stack'[t] = Append([stack[t] EXCEPT ![Depth(t)].pc = "ret"],
                                  Frame("EmitSync", RemoveListenerEv, NoCallback, FALSE))

(* Every "removeListener" emission that is not a call of the user's is     *)
(* made by a removal that is not suppressed.                               *)
OnlyRemoveListenerEmits ==
    \A t \in Callers :
        (/\ Len(stack'[t]) = Depth(t) + 1
         /\ stack'[t][Depth(t) + 1].op = "EmitSync"
         /\ stack'[t][Depth(t) + 1].event = RemoveListenerEv
         /\ calls' = calls)
            => AtTop(t, {"removeListenerInternal"}, "emit") /\ ~Top(t).flag

(* The removals in progress: a suppressed one (made by an emit for a once  *)
(* listener) never emits; one that has emitted has called every listener   *)
(* of the emission's snapshot once when it is about to return.             *)
SuppressedNeverEmits ==
    \A t \in Callers : \A d \in 1..Depth(t) :
        LET f == stack[t][d]
        IN f.op = "removeListenerInternal" =>
              /\ f.flag => f.pc # "emit" /\ d = Depth(t) /\ f.snap = <<>>
              /\ f.flag = (d > 1 /\ stack[t][d - 1].op \in {"EmitSync", "EmitAsync"})
              /\ (d = Depth(t) /\ f.pc = "ret")
                    => f.done = [j \in 1..Len(f.snap) |-> f.snap[j].callback]

(* C11: "removeListener" is emitted exactly once for each RemoveListener   *)
(* call that removed an entry, after the removal and the unlock, and never *)
(* by the removal of a once listener that EmitSync and EmitAsync make.     *)
C11_RemoveListenerEmitted ==
    /\ [][RemovalDecidesEmission /\ RemovalEmitsOnce /\ OnlyRemoveListenerEmits]_vars
    /\ []SuppressedNeverEmits

(* C11 witness: RemoveListener(e, f) is about to return; the entry is      *)
(* gone and its emission has called the listener of "removeListener".      *)
C11_Witness ==
    /\ AtTop("c1", {"removeListenerInternal"}, "ret")
    /\ Depth("c1") = 1
    /\ Top("c1").event = EvA
    /\ Top("c1").done = <<Fn1>>
    /\ RemoveListenerEv \in DOMAIN listeners
    /\ listeners[RemoveListenerEv] = <<Listener(Fn1, FALSE)>>
    /\ listeners[EvA] = <<>>

----------------------------------------------------------------------------
(* RemoveListener(p, f) finds nothing to remove: key p is absent or holds  *)
(* no entry whose callback is f.                                           *)
NothingToRemove(p, f) ==
    \/ p \notin DOMAIN listeners
    \/ \A k \in 1..Len(listeners[p]) : ~SameCallback(listeners[p][k].callback, f)

(* The steps of a RemoveListener call that finds nothing: the lock, the    *)
(* scan that ends with the unlock, the return (of a call on a key no       *)
(* removal has touched); none changes the registry, calls or starts a      *)
(* callback, or makes an emission.                                         *)
MissIsNoOp ==
    \A t \in Callers :
        (/\ Depth(t) > 0
         /\ Top(t).op = "removeListenerInternal"
         /\ ~Top(t).flag
         /\ NothingToRemove(Top(t).event, Top(t).callback)
         /\ Top(t).pc \in {"lock", "locked"} \/ Removes(Top(t).event) = 0
         /\ stack'[t] # stack[t])
            => /\ listeners' = listeners
               /\ invoked' = invoked
               /\ tasks' = tasks
               /\ Len(stack'[t]) <= Depth(t)
               /\ \/ Top(t).pc = "lock" /\ mutex' = t
                                       /\ stack'[t][Depth(t)].pc = "locked"
                  \/ Top(t).pc = "locked" /\ mutex' = Unlocked
                                         /\ stack'[t][Depth(t)].pc = "ret"
                  \/ Top(t).pc = "ret" /\ mutex = Unlocked /\ mutex' = Unlocked
                                      /\ Len(stack'[t]) = Depth(t) - 1

(* A RemoveListener call that is about to return with nothing removed has  *)
(* made no emission and has left the mutex unlocked.                       *)
MissReturnsUnlocked ==
    \A t \in Callers :
        (/\ AtTop(t, {"removeListenerInternal"}, "ret")
         /\ NothingToRemove(Top(t).event, Top(t).callback)
         /\ Removes(Top(t).event) = 0)
            => /\ mutex = Unlocked
               /\ Top(t).snap = <<>>
               /\ Top(t).done = <<>>

(* C12: RemoveListener(p, f) with key p absent, or with no entry of p      *)
(* whose callback is f, changes nothing: the registry stays as it is, no   *)
(* callback is invoked, no "removeListener" is emitted, and the mutex is   *)
(* unlocked on return.                                                     *)
C12_RemoveMissIsNoOp == [][MissIsNoOp]_vars /\ []MissReturnsUnlocked

(* C12 witness: RemoveListener(e, Fn1) is about to return, key e holding   *)
(* only Fn2; the listener of "removeListener" has not been called.         *)
C12_Witness ==
    /\ AtTop("c1", {"removeListenerInternal"}, "ret")
    /\ Top("c1").event = EvA
    /\ Top("c1").callback = Fn1
    /\ DOMAIN listeners = {EvA, RemoveListenerEv}
    /\ listeners[EvA] = <<Listener(Fn2, FALSE)>>
    /\ listeners[RemoveListenerEv] = <<Listener(Fn2, FALSE)>>
    /\ invoked[Fn2] = 0
    /\ Removes(EvA) = 0
    /\ mutex = Unlocked

----------------------------------------------------------------------------
(* The step of RemoveAllListeners that holds the mutex: with nil it leaves *)
(* the registry empty, so that Listeners(e) is empty for every e; with a   *)
(* key it deletes that key and no other.                                   *)
ClearsAllOrOneKey ==
    \A t \in Callers :
        Takes(t, {"RemoveAllListeners"}, "locked") =>
            LET k == Top(t).event
            IN IF k = NilEvent
               THEN /\ DOMAIN listeners' = {}
                    /\ \A e \in MatchEvents : Listeners(listeners', e) = {<<>>}
               ELSE /\ DOMAIN listeners' = DOMAIN listeners \ {k}
                    /\ \A q \in DOMAIN listeners' : listeners'[q] = listeners[q]
                    /\ k \notin DOMAIN listeners => listeners' = listeners

(* The other steps of a RemoveAllListeners call leave the registry alone. *)
ClearsInOneStep ==
    \A t \in Callers :
        (/\ Depth(t) > 0
         /\ Top(t).op = "RemoveAllListeners"
         /\ Top(t).pc # "locked")
            => listeners' = listeners

(* C13: RemoveAllListeners(nil) leaves the registry empty;                 *)
(* RemoveAllListeners(k) deletes the exact key k only, leaving every other *)
(* key's slice as it is, the keys k matches as a pattern included, and     *)
(* does nothing when k is absent.                                          *)
C13_RemoveAllListeners == [][ClearsAllOrOneKey /\ ClearsInOneStep]_vars

(* C13 witness: RemoveAllListeners("a*") is about to return; key "a*",     *)
(* which had a listener, is gone and key "ab" still has its listener.      *)
C13_Witness ==
    /\ AtTop("c1", {"RemoveAllListeners"}, "ret")
    /\ Top("c1").event = PatAStar
    /\ Adds(PatAStar) = 1
    /\ DOMAIN listeners = {EvAB}
    /\ listeners[EvAB] = <<Listener(Fn1, FALSE)>>
    /\ shouldAdd(PatAStar, EvAB)

----------------------------------------------------------------------------
(* Glob matching stated on positions: the lengths of the prefixes of event *)
(* e that the first i characters of pattern k can stand for, a '*'         *)
(* standing for zero or more characters.                                   *)
RECURSIVE GlobPrefixes(_, _, _)
GlobPrefixes(k, e, i) ==
    IF i = 0 THEN {0}
    ELSE LET before == GlobPrefixes(k, e, i - 1)
         IN IF k[i] = Star
            THEN {n \in 0..Len(e) : \E m \in before : m <= n}
            ELSE {m + 1 : m \in {n \in before : n < Len(e) /\ e[n + 1] = k[i]}}

(* Pattern k glob-matches the whole of event e. *)
Globs(k, e) == Len(e) \in GlobPrefixes(k, e, Len(k))

(* Key k matches event e. *)
KeyMatches(k, e) ==
    \/ k = MatchAll
    \/ k = e
    \/ Contains(k, Star) /\ Globs(k, e)

(* The patterns of up to n characters over the letters of the keys. *)
Patterns(n) == UNION {[1..m -> {"a", "b", Star}] : m \in 1..n}

(* When Listeners(e) reads the registry, the matcher agrees with glob      *)
(* matching on every short pattern, and the test for a key to match e with *)
(* the three cases: "**", the event's own name, a matching wildcard.       *)
MatcherIsGlob ==
    \A t \in Callers :
        AtTop(t, {"Listeners"}, "locked") =>
            LET e == Top(t).event
            IN /\ \A k \in Patterns(MaxPatternLen) \cup DOMAIN listeners :
                     /\ eventMatchPattern(e, k) = Globs(k, e)
                     /\ shouldAdd(k, e) = KeyMatches(k, e)
               /\ (e \in {EvA, EvAB}) = shouldAdd(PatAStar, e)

(* Listeners(e) returns the listeners of the matching keys and no other,   *)
(* the slice of each matching key once and in its order, and leaves the    *)
(* registry as it is.                                                      *)
ReturnsMatchingKeys ==
    \A t \in Callers :
        Takes(t, {"Listeners"}, "locked") =>
            LET e == Top(t).event
                snap == stack'[t][Depth(t)].snap
                matching == {k \in DOMAIN listeners : KeyMatches(k, e)}
            IN /\ SeqToBag(snap) = BagOfKeys(listeners, matching)
               /\ \A k \in matching : HoldsBlock(snap, listeners[k])
               /\ Len(snap) = ListenersCount(listeners, e)
               /\ listeners' = listeners

----------------------------------------------------------------------------
(* The process has exited. *)
HasExited == \E t \in Callers : Depth(t) = 1 /\ stack[t][1].op = "exit"

(* The step that follows the panic of a callback called by EmitSync: the   *)
(* frames of the callback and of EmitSync are gone, with those of the      *)
(* methods below that do not recover, or the process has exited; the       *)
(* registry and the counts of invocations are as they were, the listeners  *)
(* of the snapshot not yet reached are all still registered, and the mutex *)
(* is unlocked.                                                            *)
PanicPropagates ==
    \A t \in Callers :
        Takes(t, {"callback"}, "panic") =>
            LET d == Depth(t)
                emit == stack[t][d - 1]
                rest == SubSeq(emit.snap, emit.i, Len(emit.snap))
            IN /\ emit.op = "EmitSync"
               /\ \/ HasExited'
                  \/ /\ Len(stack'[t]) < d - 1
                     /\ stack'[t] = SubSeq(stack[t], 1, Len(stack'[t]))
                     /\ tasks' = tasks
                     /\ invoked' = invoked
               /\ listeners' = listeners
               /\ mutex = Unlocked /\ mutex' = Unlocked
               /\ SeqToBag(rest) \sqsubseteq
                     BagOfKeys(listeners', MatchingKeys(listeners', emit.event))

(* Whatever has panicked before, a caller inside a call can take a step;   *)
(* it never finds the mutex locked.                                        *)
CompletesAfterPanic ==
    \A t \in Callers :
        (~Idle(t) /\ ~HasExited) =>
            /\ ENABLED (Step(t) \/ EmitAsyncGo(t) \/ Unwind(t))
            /\ Top(t).pc = "lock" => mutex = Unlocked

----------------------------------------------------------------------------
(* C16: the panic of a callback run as a goroutine of EmitAsync stays in   *)
(* that goroutine: the process goes on, with its other goroutines and its  *)
(* callers.  EmitAsync starts the callback with nothing that recovers, and *)
(* a panic no frame of the goroutine recovers ends the process.            *)
C16_AsyncPanicIsolated ==
    \A t \in Callers : ~(Depth(t) = 1 /\ stack[t][1].op = "exit" /\ stack[t][1].flag)

----------------------------------------------------------------------------
(* The once listeners that Listeners(e) would return. *)
OnceListed(e) ==
    UNION {{listeners[k][j] : j \in {n \in 1..Len(listeners[k]) : listeners[k][n].once}} :
              k \in MatchingKeys(listeners, e)}

(* C17: EmitAsync does the snapshot and the removal of once listeners      *)
(* before it returns: when it is about to return, no once listener of its  *)
(* snapshot is registered any more, whether or not its goroutines have     *)
(* run.  A once listener of a wildcard key is looked for under the name of *)
(* the event and stays; one whose callback is also registered with On on   *)
(* the key, before it, stays while the On entry goes.                      *)
C17_AsyncConsumesBeforeReturn ==
    \A t \in Callers :
        (/\ AtTop(t, {"EmitAsync"}, "loop")
         /\ Top(t).i > Len(Top(t).snap))
            => \A j \in 1..Len(Top(t).snap) :
                  Top(t).snap[j].once => Top(t).snap[j] \notin OnceListed(Top(t).event)

----------------------------------------------------------------------------
(* C18: a once listener is removed before its callback is invoked: at the *)
(* moment EmitSync(e), e an exact key, calls the callback of a once        *)
(* listener (here one that a single Once(e, f) has registered), its entry  *)
(* is not in the slice of key e, so that an EmitSync(e) made by the        *)
(* callback does not call it again.  The removal takes the first entry of  *)
(* the key with the callback's code pointer: after On(e, f), Once(e, f) it *)
(* is the On entry that goes, and the once entry is still listed when f is *)
(* called.                                                                 *)
C18_OnceAbsentWhenInvoked ==
    \A t \in Callers :
        (/\ AtTop(t, {"EmitSync"}, "invoke")
         /\ IsExact(Top(t).event)
         /\ CopiesIn(Call("Once", Top(t).event, Top(t).snap[Top(t).i].callback), hist) = 1)
            => \A k \in 1..Len(listeners[Top(t).event]) :
                  listeners[Top(t).event][k] # Top(t).snap[Top(t).i]

----------------------------------------------------------------------------
(* The entries of key p registered with On. *)
OnEntries(reg, p) ==
    IF p \in DOMAIN reg THEN SelectSeq(reg[p], LAMBDA l : ~l.once) ELSE <<>>

(* The removal that an emit makes for a once listener leaves the entries   *)
(* registered with On as they are.                                         *)
ConsumptionKeepsOnEntries ==
    \A t \in Callers :
        (Takes(t, {"removeListenerInternal"}, "locked") /\ Top(t).flag)
            => \A p \in DOMAIN listeners :
                  OnEntries(listeners', p) = OnEntries(listeners, p)

(* C19: the consumption of a once listener removes the once entry only:    *)
(* EmitSync and EmitAsync never remove a listener registered with On, also *)
(* when its callback is registered on the key with On and with Once.  The  *)
(* removal takes the first entry with the callback's code pointer, which   *)
(* after On(e, f), Once(e, f) is the On entry.                             *)
C19_ConsumptionRemovesOnceOnly == [][ConsumptionKeepsOnEntries]_vars

----------------------------------------------------------------------------
(* On or Once on key "newListener" is about to return. *)
MetaRegistrationEnds(t) ==
    AtTop(t, {"On", "Once"}, "ret") /\ Top(t).event = NewListenerEv

(* The number of entries of slice s with the callback f, and of those that *)
(* are once listeners.                                                     *)
CountOf(s, f) ==
    Cardinality({j \in 1..Len(s) : SameCallback(s[j].callback, f)})
OnceCountOf(s, f) ==
    Cardinality({j \in 1..Len(s) : SameCallback(s[j].callback, f) /\ s[j].once})

(* C20 as stated: a listener registered on "newListener" is not triggered  *)
(* by its own registration: when On("newListener", f) returns f has not    *)
(* been invoked, and when Once("newListener", f) returns f is still        *)
(* registered.  Stated for a callback with no other registration.  The     *)
(* emission is made after the append and so reaches the new listener.      *)
C20_NoSelfTrigger ==
    \A t \in Callers :
        (MetaRegistrationEnds(t) /\ SumCopies(hist, SameCode(Top(t).callback)) = 1)
            => /\ invoked[Top(t).callback] = 0
               /\ Top(t).op = "Once" =>
                     listeners[NewListenerEv] # <<>>

(* C20 amended: a listener registered on "newListener" is triggered by its *)
(* own registration: the emission of On("newListener", f) and of           *)
(* Once("newListener", f) has the new listener as the last of its          *)
(* snapshot and has called f when the call returns, and the emission of    *)
(* Once has itself consumed a once entry of f: the key then holds as many  *)
(* entries of f as the snapshot, less the once entries of f in it.         *)
C20_SelfTrigger ==
    \A t \in Callers :
        MetaRegistrationEnds(t) =>
            LET f == Top(t)
                n == Len(f.snap)
            IN /\ n > 0
               /\ f.snap[n] = Listener(f.callback, f.op = "Once")
               /\ Len(f.done) = n
               /\ f.done[n] = f.callback
               /\ invoked[f.callback] > 0
               /\ Entries(NewListenerEv, f.callback)
                     = CountOf(f.snap, f.callback) - OnceCountOf(f.snap, f.callback)
               /\ f.op = "Once" => Len(listeners[NewListenerEv]) < n

(* C20 witness: the first call, Once("newListener", f), is about to        *)
(* return; f has been invoked and is no longer registered.                 *)
C20_Witness ==
    /\ MetaRegistrationEnds("c1")
    /\ Top("c1").op = "Once"
    /\ calls = 1
    /\ invoked[Top("c1").callback] = 1
    /\ listeners[NewListenerEv] = <<>>

====
